---- MODULE Spec2Model ----
(***************************************************************************)
(* Model of avocado/utils/partition.py: Partition objects owned by        *)
(* independent processes that format, mount and unmount devices on one    *)
(* host, serialised by MtabLock.  Every external command (mount, umount,  *)
(* losetup, lsof, kill, mkfs, dd) is one step whose exit status is chosen *)
(* by the environment.  A second specification follows the command line   *)
(* mkfs builds, character by character; a third one follows               *)
(* SuiteDependency.pre of avocado/plugins/dependency.py over a heap of     *)
(* list objects.                                                           *)
(***************************************************************************)
EXTENDS Integers, Sequences, FiniteSets, TLC

\* ---- bounds of the model ------------------------------------------------
\* calls (mkfs / mount / unmount) the processes make in total
MaxCalls == 2
\* entries the mount table can hold before the mount command fails
MaxMounts == 2
\* mkfs calls made on the Partition whose format command is followed
MaxMkfsCalls == 2
\* tests of the suite SuiteDependency.pre processes
MaxTests == 2

Procs == {"p1", "p2"}
None == "None"

\* constructor arguments the processes choose from: a raw device, a
\* loop-backed file, an active swap device without a default mount point
Configs ==
    { [device |-> "devA",  loop |-> 0, mountpoint |-> "mp1"],
      [device |-> "fileB", loop |-> 1, mountpoint |-> "mp1"],
      [device |-> "devS",  loop |-> 0, mountpoint |-> None] }
MountpointArgs == {None, "mp2"}
FstypeArgs == {None, "xfs"}
LoopDevs == <<"loop0", "loop1">>
\* devices listed by "swapon -s"
Swaps == {"devS"}
\* what a successful lsof reports: one PID per output line after the header
PidLists == {<< >>, <<7, 8>>}
\* why lsof ends with a non-zero exit status: nothing has a file open under
\* the mount point (no output), or the query itself failed
LsofFailures == {"no matches", "error"}

VARIABLES
    part,      \* part[p]: the Partition of process p (device, loop, fstype, mountpoint)
    pc,        \* pc[p]: position of p inside the call it is executing
    op,        \* op[p]: the call p is executing or executed last
    calls,     \* calls[p]: number of calls p has started
    loc,       \* loc[p]: arguments and locals of the current / last call
    cmds,      \* cmds[p]: external commands issued by the current / last call
    result,    \* result[p]: value returned by the last call (0 = None)
    error,     \* error[p]: exception raised by the last call, or None
    devAtCall, \* devAtCall[p]: part[p].device when the current / last call began
    mtab,      \* the mount table: <<device, mount point>> in mount order
    loops,     \* loops[i]: backing file and binder of loop device LoopDevs[i]
    dirs,      \* existing mount point directories
    lockfile,  \* TRUE while the lock file of the mount-table lock exists
    locked,    \* locked[p]: FileLock.locked of p's MtabLock
    mtabOpen,  \* mtabOpen[p]: MtabLock.mtab of p is an open handle
    \* -- the Partition whose mkfs command line is followed
    obj,       \* its fields: device, loop, fstype, mkfs_flags
    mk,        \* arguments, locals and outcome of its current / last mkfs call
    kpc,       \* position: "off", "new", "idle", "run"
    kcalls,    \* number of mkfs calls started
    \* -- SuiteDependency.pre
    suite,     \* the suite: configured dependency file, what the file holds
    heap,      \* heap[r]: the list object with reference r
    tests,     \* tests[t]: reference held by runnable t's dependencies attribute
    dependencies, \* reference held by the local variable, or None
    runnable,  \* index of the runnable the loop of line 75 reaches next
    dpc,       \* position: "off", "start", "loop", "done", "error"
    derror     \* the DependencyResolverError pre raised, or None

partVars == <<part, pc, op, calls, loc, cmds, result, error, devAtCall,
              mtab, loops, dirs, lockfile, locked, mtabOpen>>
mkfsVars == <<obj, mk, kpc, kcalls>>
depVars == <<suite, heap, tests, dependencies, runnable, dpc, derror>>
vars == <<partVars, mkfsVars, depVars>>
\* what the processes' Partition operations never touch
otherVars == <<mkfsVars, depVars>>
osVars == <<mtab, loops, dirs>>
lockVars == <<lockfile, locked, mtabOpen>>

\* a loop device nothing is bound to
NoLoop == [back |-> None, by |-> None]

NoLoc == [mountpoint |-> None, fstype |-> None, check |-> FALSE,
          force |-> FALSE, pids |-> << >>]

\* one issued command: its name, its operand, its exit status (ok = 0) and
\* whether the issuing process held the mount-table lock at that moment
Entry(p, c, arg, ok) == [c |-> c, arg |-> arg, ok |-> ok, held |-> locked[p]]
Log(p, c, arg, ok) == [cmds EXCEPT ![p] = Append(@, Entry(p, c, arg, ok))]

\* no mkfs command line is followed
NoObj == [device |-> None, loop |-> 0, fstype |-> None, mkfs_flags |-> ""]
NoMk == [in_fstype |-> None, args |-> "", fstype |-> None, mkfs_cmd |-> None,
         status |-> None]
InitNoMkfs == obj = NoObj /\ mk = NoMk /\ kpc = "off" /\ kcalls = 0

\* no suite is processed
InitNoDep ==
    /\ suite = [dependency |-> None,
                file |-> [exists |-> FALSE, valid |-> FALSE, dicts |-> << >>]]
    /\ heap = << >> /\ tests = << >>
    /\ dependencies = None /\ runnable = 0 /\ dpc = "off" /\ derror = None

InitPartition ==
    /\ part = [p \in Procs |-> [device |-> None, loop |-> 0,
                                fstype |-> None, mountpoint |-> None]]
    /\ pc = [p \in Procs |-> "new"]
    /\ op = [p \in Procs |-> None]
    /\ calls = [p \in Procs |-> 0]
    /\ loc = [p \in Procs |-> NoLoc]
    /\ cmds = [p \in Procs |-> << >>]
    /\ result = [p \in Procs |-> 0]
    /\ error = [p \in Procs |-> None]
    /\ devAtCall = [p \in Procs |-> None]
    /\ mtab = << >>
    /\ loops = [i \in 1..Len(LoopDevs) |-> NoLoop]
    /\ dirs = {}
    /\ lockfile = FALSE
    /\ locked = [p \in Procs |-> FALSE]
    /\ mtabOpen = [p \in Procs |-> FALSE]

Init == InitPartition /\ InitNoMkfs /\ InitNoDep

\* ---- Mount Table Reader -------------------------------------------------
Range(s) == {s[i] : i \in 1..Len(s)}

list_mount_devices == {e[1] : e \in Range(mtab)} \cup Swaps

list_mount_points == {e[2] : e \in Range(mtab)}

Symlinks == [l \in {"linkA"} |-> "devA"]
realpath(d) == IF d \in DOMAIN Symlinks THEN Symlinks[d] ELSE d

\* get_mountpoint(filename): first line of the file whose device matches
\* literally or by real path AND whose mount point is the stored default
get_mountpoint_in(table, p) ==
    LET hits == {i \in 1..Len(table) :
                    /\ \/ table[i][1] = part[p].device
                       \/ realpath(table[i][1]) = realpath(part[p].device)
                    /\ table[i][2] = part[p].mountpoint}
    IN IF hits = {} THEN None
       ELSE table[CHOOSE i \in hits : \A j \in hits : i <= j][2]

\* /proc/mounts and /etc/mtab both show the mount table
get_mountpoint(p) ==
    LET res == get_mountpoint_in(mtab, p)
    IN IF res # None THEN res
       ELSE LET res2 == get_mountpoint_in(mtab, p)
            IN IF res2 # "/" THEN None ELSE res2

\* ---- construction -------------------------------------------------------
\* Partition.__init__: stores the fields; a loop-backed partition zero-fills
\* its backing file with dd, whose failure leaves the constructor by a raw
\* command error and no Partition
Construct(p) ==
    /\ pc[p] = "new"
    /\ \E cfg \in Configs, ok \in BOOLEAN :
        /\ part' = [part EXCEPT ![p] = [device |-> cfg.device, loop |-> cfg.loop,
                                        fstype |-> None,
                                        mountpoint |-> cfg.mountpoint]]
        /\ IF cfg.loop # 0
             THEN /\ cmds' = Log(p, "dd", cfg.device, ok)
                  /\ pc' = [pc EXCEPT ![p] = IF ok THEN "idle" ELSE "failed"]
                  /\ error' = [error EXCEPT ![p] = IF ok THEN None ELSE "CmdError"]
             ELSE /\ ok
                  /\ cmds' = cmds
                  /\ pc' = [pc EXCEPT ![p] = "idle"]
                  /\ error' = error
    /\ op' = [op EXCEPT ![p] = "init"]
    /\ UNCHANGED <<calls, loc, result, devAtCall, osVars, lockVars>>
    /\ UNCHANGED otherVars

\* ---- call frames ------------------------------------------------------
PartitionErrors ==
    { "Unable to obtain lock", "Unable to format mounted device", "Failed to mkfs",
      "No mountpoint specified", "Attempted to mount mounted device",
      "Attempted to mount busy directory", "Mount failed", "Failure executing lsof",
      "Could not run lsof",
      "Failed to kill processes", "Force unmount failed",
      "Unable to unmount gracefully", "Unable to cleanup loop device" }

RECURSIVE Sum(_, _)
Sum(f, S) == IF S = {} THEN 0
             ELSE LET x == CHOOSE x \in S : TRUE IN f[x] + Sum(f, S \ {x})
TotalCalls == Sum(calls, Procs)

\* a call of p begins: fresh command log, no result yet
Begin(p, name) ==
    /\ pc[p] = "idle"
    /\ TotalCalls < MaxCalls
    /\ calls' = [calls EXCEPT ![p] = @ + 1]
    /\ op' = [op EXCEPT ![p] = name]
    /\ devAtCall' = [devAtCall EXCEPT ![p] = part[p].device]

\* the frame is left: the locals die, the arguments of the call are kept
\* for reference (mount point used or resolved, check, force)
Left(l) == [l EXCEPT !.fstype = None, !.pids = << >>]

\* the call of p returns v / raises e
Return(p, v) ==
    /\ pc' = [pc EXCEPT ![p] = "idle"]
    /\ result' = [result EXCEPT ![p] = v]
    /\ error' = [error EXCEPT ![p] = None]
    /\ loc' = [loc EXCEPT ![p] = Left(loc[p])]

Raise(p, e) ==
    /\ pc' = [pc EXCEPT ![p] = "idle"]
    /\ result' = [result EXCEPT ![p] = 0]
    /\ error' = [error EXCEPT ![p] = e]
    /\ loc' = [loc EXCEPT ![p] = Left(loc[p])]

\* ---- the named lock (avocado.utils.filelock.FileLock) -------------------
\* exclusive creation of the lock file
FileLockAcquire(p) ==
    /\ ~lockfile
    /\ lockfile' = TRUE
    /\ locked' = [locked EXCEPT ![p] = TRUE]

\* the lock file still exists when the timeout expires: AlreadyLocked
FileLockTimeout(p) ==
    /\ lockfile
    /\ UNCHANGED <<lockfile, locked>>

\* removes the lock file if this FileLock created it
FileLockExit(p) ==
    IF locked[p]
      THEN /\ lockfile' = FALSE
           /\ locked' = [locked EXCEPT ![p] = FALSE]
      ELSE UNCHANGED <<lockfile, locked>>

\* ---- MtabLock -----------------------------------------------------------
\* MtabLock.__exit__: closes the handle, leaves the file lock
MtabLockExit(p) ==
    /\ mtabOpen' = [mtabOpen EXCEPT ![p] = FALSE]
    /\ FileLockExit(p)

\* where the body of "with MtabLock():" starts
Body(p) == IF op[p] = "mount" THEN "m_check" ELSE "u_resolve"

\* MtabLock.__enter__ with the lock failure swallowed: the body runs although
\* the file lock was not obtained
MtabLockEnter_Swallow(p) ==
    /\ pc[p] = "lock"
    /\ \/ /\ FileLockTimeout(p)
          /\ mtabOpen' = [mtabOpen EXCEPT ![p] = TRUE]
          /\ pc' = [pc EXCEPT ![p] = Body(p)]
          /\ UNCHANGED <<result, error, loc>>
       \/ /\ FileLockAcquire(p)
          /\ \/ /\ mtabOpen' = [mtabOpen EXCEPT ![p] = TRUE]
                /\ pc' = [pc EXCEPT ![p] = Body(p)]
                /\ UNCHANGED <<result, error, loc>>
             \/ /\ Raise(p, "OSError")
                /\ UNCHANGED mtabOpen
    /\ UNCHANGED <<part, op, calls, cmds, devAtCall, osVars>>
    /\ UNCHANGED otherVars

\* MtabLock.__enter__: a lock failure becomes a PartitionError; open() of the
\* mount-table file may fail after the file lock was taken, and then the
\* with statement never runs __exit__
MtabLockEnter(p) ==
    /\ pc[p] = "lock"
    /\ \/ /\ FileLockTimeout(p)
          /\ Raise(p, "Unable to obtain lock")
          /\ UNCHANGED mtabOpen
       \/ /\ FileLockAcquire(p)
          /\ \/ /\ mtabOpen' = [mtabOpen EXCEPT ![p] = TRUE]
                /\ pc' = [pc EXCEPT ![p] = Body(p)]
                /\ UNCHANGED <<result, error, loc>>
             \/ /\ Raise(p, "OSError")
                /\ UNCHANGED mtabOpen
    /\ UNCHANGED <<part, op, calls, cmds, devAtCall, osVars>>
    /\ UNCHANGED otherVars

\* ---- mkfs ---------------------------------------------------------------
\* mkfs, lines 167-193: refuses a mounted device, resolves the type
\* (argument, else recorded type, else ext2) and builds the command
Mkfs(p) ==
    /\ Begin(p, "mkfs")
    /\ cmds' = [cmds EXCEPT ![p] = << >>]
    /\ \E fstype \in FstypeArgs :
        IF part[p].device \in list_mount_devices
          THEN /\ pc' = pc
               /\ result' = [result EXCEPT ![p] = 0]
               /\ error' = [error EXCEPT ![p] = "Unable to format mounted device"]
               /\ loc' = [loc EXCEPT ![p] = NoLoc]
          ELSE /\ pc' = [pc EXCEPT ![p] = "k_run"]
               /\ loc' = [loc EXCEPT ![p] = [NoLoc EXCEPT !.fstype =
                            IF fstype # None THEN fstype
                            ELSE IF part[p].fstype # None THEN part[p].fstype
                            ELSE "ext2"]]
               /\ result' = [result EXCEPT ![p] = 0]
               /\ error' = [error EXCEPT ![p] = None]
    /\ UNCHANGED <<part, osVars, lockVars>>
    /\ UNCHANGED otherVars

\* mkfs, lines 195-199: runs the format command and records the type
MkfsRun(p) ==
    /\ pc[p] = "k_run"
    /\ \E ok \in BOOLEAN :
        /\ cmds' = Log(p, "mkfs", part[p].device, ok)
        /\ IF ok
             THEN /\ part' = [part EXCEPT ![p].fstype = loc[p].fstype]
                  /\ Return(p, 0)
             ELSE /\ part' = part
                  /\ Raise(p, "Failed to mkfs")
    /\ UNCHANGED <<op, calls, devAtCall, osVars, lockVars>>
    /\ UNCHANGED otherVars

\* ---- mount --------------------------------------------------------------
\* mount, lines 212-229: effective mount point and type, before the lock
Mount(p) ==
    /\ Begin(p, "mount")
    /\ cmds' = [cmds EXCEPT ![p] = << >>]
    /\ \E mountpoint \in MountpointArgs, fstype \in FstypeArgs, mnt_check \in BOOLEAN :
        LET mp == IF mountpoint # None THEN mountpoint ELSE part[p].mountpoint
        IN IF mp = None
             THEN /\ pc' = pc
                  /\ result' = [result EXCEPT ![p] = 0]
                  /\ error' = [error EXCEPT ![p] = "No mountpoint specified"]
                  /\ loc' = [loc EXCEPT ![p] = [NoLoc EXCEPT !.check = mnt_check]]
                  /\ part' = part
             ELSE /\ pc' = [pc EXCEPT ![p] = "lock"]
                  /\ part' = [part EXCEPT ![p].fstype =
                                IF fstype = None THEN @ ELSE fstype]
                  /\ loc' = [loc EXCEPT ![p] =
                               [NoLoc EXCEPT !.mountpoint = mp,
                                             !.fstype = IF fstype = None
                                                          THEN part[p].fstype
                                                          ELSE fstype,
                                             !.check = mnt_check]]
                  /\ result' = [result EXCEPT ![p] = 0]
                  /\ error' = [error EXCEPT ![p] = None]
    /\ UNCHANGED <<osVars, lockVars>>
    /\ UNCHANGED otherVars

\* the mount point directory created before the double check
MountCheck_MkdirFirst(p) ==
    /\ pc[p] = "m_check"
    /\ dirs' = dirs \cup {loc[p].mountpoint}
    /\ IF loc[p].check /\ part[p].device \in list_mount_devices
         THEN /\ Raise(p, "Attempted to mount mounted device")
              /\ MtabLockExit(p)
       ELSE IF loc[p].check /\ loc[p].mountpoint \in list_mount_points
         THEN /\ Raise(p, "Attempted to mount busy directory")
              /\ MtabLockExit(p)
         ELSE /\ pc' = [pc EXCEPT ![p] = IF part[p].loop # 0 THEN "m_losetup"
                                                             ELSE "m_mount"]
              /\ UNCHANGED <<result, error, loc, lockVars>>
    /\ UNCHANGED <<part, op, calls, cmds, devAtCall, mtab, loops>>
    /\ UNCHANGED otherVars

\* mount, lines 232-238: the double check, then the mount point directory
MountCheck(p) ==
    /\ pc[p] = "m_check"
    /\ IF loc[p].check /\ part[p].device \in list_mount_devices
         THEN /\ Raise(p, "Attempted to mount mounted device")
              /\ MtabLockExit(p)
              /\ dirs' = dirs
       ELSE IF loc[p].check /\ loc[p].mountpoint \in list_mount_points
         THEN /\ Raise(p, "Attempted to mount busy directory")
              /\ MtabLockExit(p)
              /\ dirs' = dirs
         ELSE /\ dirs' = dirs \cup {loc[p].mountpoint}
              /\ pc' = [pc EXCEPT ![p] = IF part[p].loop # 0 THEN "m_losetup"
                                                             ELSE "m_mount"]
              /\ UNCHANGED <<result, error, loc, lockVars>>
    /\ UNCHANGED <<part, op, calls, cmds, devAtCall, mtab, loops>>
    /\ UNCHANGED otherVars

\* the loop device "losetup --find" picks: the first free one
FreeLoops == {i \in 1..Len(LoopDevs) : loops[i] = NoLoop}
FirstFree == CHOOSE i \in FreeLoops : \A j \in FreeLoops : i <= j

\* mount, lines 240-244: binds the backing file and overwrites self.device
MountLosetup(p) ==
    /\ pc[p] = "m_losetup"
    /\ \E ok \in BOOLEAN :
        /\ cmds' = Log(p, "losetup", part[p].device, ok)
        /\ IF ok
             THEN /\ FreeLoops # {}
                  /\ loops' = [loops EXCEPT ![FirstFree] =
                                 [back |-> part[p].device, by |-> p]]
                  /\ part' = [part EXCEPT ![p].device = LoopDevs[FirstFree]]
                  /\ pc' = [pc EXCEPT ![p] = "m_mount"]
                  /\ UNCHANGED <<result, error, loc, lockVars>>
             ELSE /\ Raise(p, "Mount failed")
                  /\ MtabLockExit(p)
                  /\ UNCHANGED <<loops, part>>
    /\ UNCHANGED <<op, calls, devAtCall, mtab, dirs>>
    /\ UNCHANGED otherVars

\* mount, lines 245-249: the mount command, then the type is recorded
MountCmd(p) ==
    /\ pc[p] = "m_mount"
    /\ \E ok \in BOOLEAN :
        /\ cmds' = Log(p, "mount", part[p].device, ok)
        /\ IF ok
             THEN /\ Len(mtab) < MaxMounts
                  /\ mtab' = Append(mtab, <<part[p].device, loc[p].mountpoint>>)
                  /\ part' = [part EXCEPT ![p].fstype = loc[p].fstype]
                  /\ Return(p, 0)
             ELSE /\ Raise(p, "Mount failed")
                  /\ UNCHANGED <<mtab, part>>
    /\ MtabLockExit(p)
    /\ UNCHANGED <<op, calls, devAtCall, loops, dirs>>
    /\ UNCHANGED otherVars

\* ---- unmount ------------------------------------------------------------
\* the values unmount returns
ResultSuccess == 1
ResultForced == 2

\* "umount [-f|-l] mnt" removes the newest mount on mnt
LastOn(mnt) == CHOOSE i \in 1..Len(mtab) :
                  /\ mtab[i][2] = mnt
                  /\ \A j \in 1..Len(mtab) : mtab[j][2] = mnt => j <= i
Without(i) == [j \in 1..(Len(mtab) - 1) |-> IF j < i THEN mtab[j] ELSE mtab[j + 1]]
Umounted(mnt) == Without(LastOn(mnt))

\* unmount, line 307: the call begins by entering the lock scope
Unmount(p) ==
    /\ Begin(p, "unmount")
    /\ cmds' = [cmds EXCEPT ![p] = << >>]
    /\ \E force \in BOOLEAN :
        loc' = [loc EXCEPT ![p] = [NoLoc EXCEPT !.force = force]]
    /\ pc' = [pc EXCEPT ![p] = "lock"]
    /\ result' = [result EXCEPT ![p] = 0]
    /\ error' = [error EXCEPT ![p] = None]
    /\ UNCHANGED <<part, osVars, lockVars>>
    /\ UNCHANGED otherVars

\* what follows the lock scope of unmount, lines 325-333
AfterLock(p, v) ==
    IF part[p].loop # 0
      THEN /\ pc' = [pc EXCEPT ![p] = "u_losetup"]
           /\ result' = [result EXCEPT ![p] = v]
           /\ UNCHANGED <<error, loc>>
      ELSE Return(p, v)

\* resolution that leaves the lock scope without returning when nothing is
\* mounted, so that the loop cleanup still runs
UnmountResolve_FallThrough(p) ==
    /\ pc[p] = "u_resolve"
    /\ LET mountpoint == get_mountpoint(p)
       IN IF mountpoint = None
            THEN /\ AfterLock(p, ResultSuccess)
                 /\ MtabLockExit(p)
            ELSE /\ pc' = [pc EXCEPT ![p] = "u_umount"]
                 /\ loc' = [loc EXCEPT ![p].mountpoint = mountpoint]
                 /\ result' = [result EXCEPT ![p] = ResultSuccess]
                 /\ UNCHANGED <<error, lockVars>>
    /\ UNCHANGED <<part, op, calls, cmds, devAtCall, osVars>>
    /\ UNCHANGED otherVars

\* resolution that returns a value of its own when nothing is mounted
UnmountResolve_OwnValue(p) ==
    /\ pc[p] = "u_resolve"
    /\ LET mountpoint == get_mountpoint(p)
       IN IF mountpoint = None
            THEN /\ Return(p, 0)
                 /\ MtabLockExit(p)
            ELSE /\ pc' = [pc EXCEPT ![p] = "u_umount"]
                 /\ loc' = [loc EXCEPT ![p].mountpoint = mountpoint]
                 /\ result' = [result EXCEPT ![p] = ResultSuccess]
                 /\ UNCHANGED <<error, lockVars>>
    /\ UNCHANGED <<part, op, calls, cmds, devAtCall, osVars>>
    /\ UNCHANGED otherVars

\* unmount, lines 308-312: not mounted is an early return of result = 1
UnmountResolve(p) ==
    /\ pc[p] = "u_resolve"
    /\ LET mountpoint == get_mountpoint(p)
       IN IF mountpoint = None
            THEN /\ Return(p, ResultSuccess)
                 /\ MtabLockExit(p)
            ELSE /\ pc' = [pc EXCEPT ![p] = "u_umount"]
                 /\ loc' = [loc EXCEPT ![p].mountpoint = mountpoint]
                 /\ result' = [result EXCEPT ![p] = ResultSuccess]
                 /\ UNCHANGED <<error, lockVars>>
    /\ UNCHANGED <<part, op, calls, cmds, devAtCall, osVars>>
    /\ UNCHANGED otherVars

\* the graceful umount with the forced recovery moved out of the lock scope
UnmountCmd_ForceOutside(p) ==
    /\ pc[p] = "u_umount"
    /\ \E ok \in BOOLEAN :
        /\ cmds' = Log(p, "umount", loc[p].mountpoint, ok)
        /\ IF ok
             THEN /\ loc[p].mountpoint \in list_mount_points
                  /\ mtab' = Umounted(loc[p].mountpoint)
                  /\ AfterLock(p, ResultSuccess)
                  /\ MtabLockExit(p)
             ELSE /\ mtab' = mtab
                  /\ MtabLockExit(p)
                  /\ IF loc[p].force
                       THEN /\ pc' = [pc EXCEPT ![p] = "f_lsof"]
                            /\ UNCHANGED <<result, error, loc>>
                       ELSE Raise(p, "Unable to unmount gracefully")
    /\ UNCHANGED <<part, op, calls, devAtCall, loops, dirs>>
    /\ UNCHANGED otherVars

\* the graceful umount whose failure is always escalated, force or not
UnmountCmd_AlwaysForce(p) ==
    /\ pc[p] = "u_umount"
    /\ \E ok \in BOOLEAN :
        /\ cmds' = Log(p, "umount", loc[p].mountpoint, ok)
        /\ IF ok
             THEN /\ loc[p].mountpoint \in list_mount_points
                  /\ mtab' = Umounted(loc[p].mountpoint)
                  /\ AfterLock(p, ResultSuccess)
                  /\ MtabLockExit(p)
             ELSE /\ mtab' = mtab
                  /\ pc' = [pc EXCEPT ![p] = "f_lsof"]
                  /\ UNCHANGED <<result, error, loc, lockVars>>
    /\ UNCHANGED <<part, op, calls, devAtCall, loops, dirs>>
    /\ UNCHANGED otherVars

\* unmount, lines 313-324: the graceful umount
UnmountCmd(p) ==
    /\ pc[p] = "u_umount"
    /\ \E ok \in BOOLEAN :
        /\ cmds' = Log(p, "umount", loc[p].mountpoint, ok)
        /\ IF ok
             THEN /\ loc[p].mountpoint \in list_mount_points
                  /\ mtab' = Umounted(loc[p].mountpoint)
                  /\ AfterLock(p, ResultSuccess)
                  /\ MtabLockExit(p)
             ELSE /\ mtab' = mtab
                  /\ IF loc[p].force
                       THEN /\ pc' = [pc EXCEPT ![p] = "f_lsof"]
                            /\ UNCHANGED <<result, error, loc, lockVars>>
                       ELSE /\ Raise(p, "Unable to unmount gracefully")
                            /\ MtabLockExit(p)
    /\ UNCHANGED <<part, op, calls, devAtCall, loops, dirs>>
    /\ UNCHANGED otherVars

\* lsof whose failure is ignored: the recovery goes on with no PID
GetPidsOnMountpoint_Blind(p) ==
    /\ pc[p] = "f_lsof"
    /\ \/ \E pids \in PidLists :
            /\ cmds' = Log(p, "lsof", pids, TRUE)
            /\ loc' = [loc EXCEPT ![p].pids = pids]
            /\ pc' = [pc EXCEPT ![p] = IF pids = << >> THEN "f_umount_f"
                                                       ELSE "f_kill"]
       \/ \E why \in LsofFailures :
            /\ cmds' = Log(p, "lsof", why, FALSE)
            /\ loc' = loc
            /\ pc' = [pc EXCEPT ![p] = "f_umount_f"]
    /\ UNCHANGED <<part, op, calls, result, error, devAtCall, osVars, lockVars>>
    /\ UNCHANGED otherVars

\* _get_pids_on_mountpoint: lsof; a non-zero exit status is a PartitionError
GetPidsOnMountpoint(p) ==
    /\ pc[p] = "f_lsof"
    /\ \/ \E pids \in PidLists :
            /\ cmds' = Log(p, "lsof", pids, TRUE)
            /\ loc' = [loc EXCEPT ![p].pids = pids]
            /\ pc' = [pc EXCEPT ![p] = IF pids = << >> THEN "f_umount_f"
                                                       ELSE "f_kill"]
            /\ UNCHANGED <<result, error, lockVars>>
       \/ \E why \in LsofFailures :
            /\ cmds' = Log(p, "lsof", why, FALSE)
            /\ Raise(p, "Failure executing lsof")
            /\ MtabLockExit(p)
       \/ /\ cmds' = Log(p, "lsof", "not run", FALSE)
          /\ Raise(p, "Could not run lsof")
          /\ MtabLockExit(p)
    /\ UNCHANGED <<part, op, calls, devAtCall, osVars>>
    /\ UNCHANGED otherVars

\* the kill loop leaving after the first PID
Kill_OnlyFirst(p) ==
    /\ pc[p] = "f_kill"
    /\ \E ok \in BOOLEAN :
        cmds' = Log(p, "kill", Head(loc[p].pids), ok)
    /\ loc' = [loc EXCEPT ![p].pids = << >>]
    /\ pc' = [pc EXCEPT ![p] = "f_umount_f"]
    /\ UNCHANGED <<part, op, calls, result, error, devAtCall, osVars, lockVars>>
    /\ UNCHANGED otherVars

\* _unmount_force, lines 275-281: kill -9 per PID, exit status ignored
Kill(p) ==
    /\ pc[p] = "f_kill"
    /\ \E ok \in BOOLEAN :
        cmds' = Log(p, "kill", Head(loc[p].pids), ok)
    /\ loc' = [loc EXCEPT ![p].pids = Tail(@)]
    /\ pc' = [pc EXCEPT ![p] = IF Len(loc[p].pids) = 1 THEN "f_umount_f"
                                                       ELSE "f_kill"]
    /\ UNCHANGED <<part, op, calls, result, error, devAtCall, osVars, lockVars>>
    /\ UNCHANGED otherVars

\* _unmount_force, lines 283-285: umount -f
UmountForce(p) ==
    /\ pc[p] = "f_umount_f"
    /\ \E ok \in BOOLEAN :
        /\ cmds' = Log(p, "umount -f", loc[p].mountpoint, ok)
        /\ IF ok
             THEN /\ loc[p].mountpoint \in list_mount_points
                  /\ mtab' = Umounted(loc[p].mountpoint)
                  /\ AfterLock(p, ResultForced)
                  /\ MtabLockExit(p)
             ELSE /\ mtab' = mtab
                  /\ pc' = [pc EXCEPT ![p] = "f_umount_l"]
                  /\ UNCHANGED <<result, error, loc, lockVars>>
    /\ UNCHANGED <<part, op, calls, devAtCall, loops, dirs>>
    /\ UNCHANGED otherVars

\* umount -l whose failure is swallowed instead of raised
UmountLazy_Swallow(p) ==
    /\ pc[p] = "f_umount_l"
    /\ \E ok \in BOOLEAN :
        /\ cmds' = Log(p, "umount -l", loc[p].mountpoint, ok)
        /\ IF ok
             THEN /\ loc[p].mountpoint \in list_mount_points
                  /\ mtab' = Umounted(loc[p].mountpoint)
             ELSE mtab' = mtab
        /\ AfterLock(p, ResultForced)
    /\ MtabLockExit(p)
    /\ UNCHANGED <<part, op, calls, devAtCall, loops, dirs>>
    /\ UNCHANGED otherVars

\* _unmount_force, lines 286-291: umount -l as the last resort
UmountLazy(p) ==
    /\ pc[p] = "f_umount_l"
    /\ \E ok \in BOOLEAN :
        /\ cmds' = Log(p, "umount -l", loc[p].mountpoint, ok)
        /\ IF ok
             THEN /\ loc[p].mountpoint \in list_mount_points
                  /\ mtab' = Umounted(loc[p].mountpoint)
                  /\ AfterLock(p, ResultForced)
             ELSE /\ mtab' = mtab
                  /\ Raise(p, "Force unmount failed")
    /\ MtabLockExit(p)
    /\ UNCHANGED <<part, op, calls, devAtCall, loops, dirs>>
    /\ UNCHANGED otherVars

\* index of loop device d, 0 when d is no attached loop device
LoopIndex(d) ==
    LET hit == {i \in 1..Len(LoopDevs) : LoopDevs[i] = d /\ loops[i] # NoLoop}
    IN IF hit = {} THEN 0 ELSE CHOOSE i \in hit : TRUE

\* unmount, lines 325-333: losetup -d after the lock scope
LoopDetach(p) ==
    /\ pc[p] = "u_losetup"
    /\ \E ok \in BOOLEAN :
        /\ cmds' = Log(p, "losetup -d", part[p].device, ok)
        /\ IF ok
             THEN /\ LoopIndex(part[p].device) # 0
                  /\ loops' = [loops EXCEPT ![LoopIndex(part[p].device)] = NoLoop]
                  /\ Return(p, result[p])
             ELSE /\ loops' = loops
                  /\ Raise(p, "Unable to cleanup loop device")
    /\ UNCHANGED <<part, op, calls, devAtCall, mtab, dirs, lockVars>>
    /\ UNCHANGED otherVars

Next ==
    \E p \in Procs :
        \/ Construct(p)
        \/ MtabLockEnter(p)
        \/ Mkfs(p)
        \/ MkfsRun(p)
        \/ Mount(p)
        \/ MountCheck(p)
        \/ MountLosetup(p)
        \/ MountCmd(p)
        \/ Unmount(p)
        \/ UnmountResolve(p)
        \/ UnmountCmd(p)
        \/ GetPidsOnMountpoint(p)
        \/ Kill(p)
        \/ UmountForce(p)
        \/ UmountLazy(p)
        \/ LoopDetach(p)

Spec == Init /\ [][Next]_vars

\* ---- the command line of mkfs -------------------------------------------
\* Python strings are TLA+ strings; "sub in s", startswith, lstrip and strip
\* work on their characters.
Contains(sub, s) ==
    \E i \in 1..(Len(s) - Len(sub) + 1) : SubSeq(s, i, i + Len(sub) - 1) = sub

startswith(s, prefix) ==
    Len(s) >= Len(prefix) /\ SubSeq(s, 1, Len(prefix)) = prefix

RECURSIVE lstrip(_)
lstrip(s) == IF Len(s) > 0 /\ SubSeq(s, 1, 1) = " "
               THEN lstrip(SubSeq(s, 2, Len(s))) ELSE s

RECURSIVE rstrip(_)
rstrip(s) == IF Len(s) > 0 /\ SubSeq(s, Len(s), Len(s)) = " "
               THEN rstrip(SubSeq(s, 1, Len(s) - 1)) ELSE s

strip(s) == rstrip(lstrip(s))

\* constructor and mkfs arguments the caller chooses from
MkfsDevices == {"devA", "devS"}
LoopSizes == {0, 1}
MkfsFlagsArgs == {"", "-q", "-L scratch-tmp"}
MkfsFstypeArgs == {None, "xfs", "btrfs", "ext4", "reiserfs", "vfat"}
MkfsArgsArgs == {"", "-b 4096", "-t ext4 -b 4096", "-L my-tag"}

\* mkfs, lines 170-174: explicit type, else recorded type, else ext2
ResolveFstype(o, fstype) ==
    IF fstype # None THEN fstype
    ELSE IF o.fstype # None THEN o.fstype
    ELSE "ext2"

\* the argument string without the force flag of loop-backed reiserfs
MkfsArgs_NoReiserfs(o, fstype, args) ==
    LET a1 == IF o.mkfs_flags # "" THEN args \o " " \o o.mkfs_flags ELSE args
        a2 == IF fstype \in {"xfs", "btrfs"} THEN a1 \o " -f" ELSE a1
        a3 == IF o.loop # 0 /\ startswith(fstype, "ext") THEN a2 \o " -F" ELSE a2
        a4 == IF ~Contains("-t", a3) THEN "-t " \o fstype \o " " \o a3 ELSE a3
    IN strip(a4)

\* mkfs, lines 176-191: the argument string of the format command
MkfsArgs(o, fstype, args) ==
    LET a1 == IF o.mkfs_flags # "" THEN args \o " " \o o.mkfs_flags ELSE args
        a2 == IF fstype \in {"xfs", "btrfs"} THEN a1 \o " -f" ELSE a1
        a3 == IF o.loop # 0
                THEN IF startswith(fstype, "ext") THEN a2 \o " -F"
                     ELSE IF fstype = "reiserfs" THEN a2 \o " -f"
                     ELSE a2
                ELSE a2
        a4 == IF ~Contains("-t", a3) THEN "-t " \o fstype \o " " \o a3 ELSE a3
    IN strip(a4)

\* mkfs, line 193
mkfs_cmd(o, fstype, args) == "mkfs " \o MkfsArgs(o, fstype, args) \o " " \o o.device

\* mount, lines 220-229 without mount_options: the argument string of the
\* mount command for a fstype argument and the recorded type
MountArgs(o, fstype, args) ==
    LET t == IF fstype = None THEN o.fstype ELSE fstype
    IN lstrip(IF t # None THEN args \o " -t " \o t ELSE args)

\* Partition.__init__ of the Partition whose mkfs calls are followed
ConstructForMkfs ==
    /\ kpc = "new"
    /\ \E device \in MkfsDevices, loop_size \in LoopSizes, mkfs_flags \in MkfsFlagsArgs :
        obj' = [device |-> device, loop |-> loop_size, fstype |-> None,
                mkfs_flags |-> mkfs_flags]
    /\ kpc' = "idle"
    /\ UNCHANGED <<mk, kcalls, partVars, depVars>>

\* mkfs, lines 167-193: refuses a mounted device, resolves the type and
\* builds the command line
MkfsCommand ==
    /\ kpc = "idle"
    /\ kcalls < MaxMkfsCalls
    /\ kcalls' = kcalls + 1
    /\ \E fstype \in MkfsFstypeArgs, args \in MkfsArgsArgs :
        IF obj.device \in list_mount_devices
          THEN /\ mk' = [NoMk EXCEPT !.in_fstype = fstype, !.args = args,
                                     !.status = "Unable to format mounted device"]
               /\ kpc' = kpc
          ELSE /\ mk' = [in_fstype |-> fstype, args |-> args,
                         fstype |-> ResolveFstype(obj, fstype),
                         mkfs_cmd |-> mkfs_cmd(obj, ResolveFstype(obj, fstype), args),
                         status |-> None]
               /\ kpc' = "run"
    /\ UNCHANGED <<obj, partVars, depVars>>

\* mkfs, lines 195-199: runs "yes | mkfs ..." and records the type
MkfsCommandRun ==
    /\ kpc = "run"
    /\ \E ok \in BOOLEAN :
        IF ok
          THEN /\ obj' = [obj EXCEPT !.fstype = mk.fstype]
               /\ mk' = [mk EXCEPT !.status = "ok"]
          ELSE /\ obj' = obj
               /\ mk' = [mk EXCEPT !.status = "Failed to mkfs"]
    /\ kpc' = "idle"
    /\ UNCHANGED <<kcalls, partVars, depVars>>

InitMkfs ==
    /\ InitPartition
    /\ InitNoDep
    /\ obj = NoObj /\ mk = NoMk /\ kpc = "new" /\ kcalls = 0

NextMkfs ==
    \/ ConstructForMkfs
    \/ MkfsCommand
    \/ MkfsCommandRun

SpecMkfs == InitMkfs /\ [][NextMkfs]_vars

\* ---- SuiteDependency.pre (plugins/dependency.py) --------------------------
\* Python lists are objects: heap holds them, and a variable or an attribute
\* holds a reference (an index of heap).  Assigning a list copies the
\* reference, extend changes the object.

\* Dependency objects the tests declare
DepA == [kind |-> "package", uri |-> None, kwargs |-> [name |-> "gcc"]]
DepB == [kind |-> "package", uri |-> None, kwargs |-> [name |-> "make"]]
TestDepLists == {<< >>, <<DepA>>, <<DepB>>}

\* entries of the JSON dependency file
DictF == [type |-> "pip", name |-> "six"]
\* what open() and json.load() find at the configured path
FileStates ==
    { [exists |-> FALSE, valid |-> FALSE, dicts |-> << >>],
      [exists |-> TRUE,  valid |-> FALSE, dicts |-> << >>],
      [exists |-> TRUE,  valid |-> TRUE,  dicts |-> << >>],
      [exists |-> TRUE,  valid |-> TRUE,  dicts |-> <<DictF>>] }
\* job.run.dependency of the suite's config
DependencyPaths == {None, "deps.json"}

\* Dependency.from_dictionary: "type" becomes the kind, the remaining keys
\* become keyword arguments
from_dictionary(d) == [kind |-> d.type, uri |-> None, kwargs |-> [name |-> d.name]]

\* a job with one suite of 1..MaxTests tests, each with its own list
InitDep ==
    /\ InitPartition
    /\ InitNoMkfs
    /\ \E n \in 1..MaxTests :
        /\ heap \in [1..n -> TestDepLists]
        /\ tests = [t \in 1..n |-> t]
    /\ suite \in [dependency : DependencyPaths, file : FileStates]
    /\ dependencies = None /\ runnable = 1 /\ dpc = "start" /\ derror = None

\* pre, lines 56-57: no dependency file configured for the suite
PreNoFile ==
    /\ dpc = "start"
    /\ suite.dependency = None
    /\ dpc' = "done"
    /\ UNCHANGED <<suite, heap, tests, dependencies, runnable, derror>>
    /\ UNCHANGED <<partVars, mkfsVars>>

\* pre, lines 58-74: reads the file and builds the new list "dependencies"
PreLoad ==
    /\ dpc = "start"
    /\ suite.dependency # None
    /\ IF ~suite.file.exists
         THEN /\ derror' = "Dependency file not found"
              /\ dpc' = "error"
              /\ UNCHANGED <<heap, dependencies>>
         ELSE IF ~suite.file.valid
         THEN /\ derror' = "Issue with parsing dependency file"
              /\ dpc' = "error"
              /\ UNCHANGED <<heap, dependencies>>
         ELSE /\ heap' = Append(heap, [i \in 1..Len(suite.file.dicts) |->
                                          from_dictionary(suite.file.dicts[i])])
              /\ dependencies' = Len(heap) + 1
              /\ dpc' = "loop"
              /\ derror' = derror
    /\ UNCHANGED <<suite, tests, runnable>>
    /\ UNCHANGED <<partVars, mkfsVars>>

\* pre, lines 75-77: extends the one list and hands it to the runnable
PreAssign ==
    /\ dpc = "loop"
    /\ runnable <= Len(tests)
    /\ heap' = [heap EXCEPT ![dependencies] = @ \o heap[tests[runnable]]]
    /\ tests' = [tests EXCEPT ![runnable] = dependencies]
    /\ runnable' = runnable + 1
    /\ UNCHANGED <<suite, dependencies, dpc, derror>>
    /\ UNCHANGED <<partVars, mkfsVars>>

\* pre, line 75: the loop over suite.tests is exhausted
PreDone ==
    /\ dpc = "loop"
    /\ runnable > Len(tests)
    /\ dpc' = "done"
    /\ UNCHANGED <<suite, heap, tests, dependencies, runnable, derror>>
    /\ UNCHANGED <<partVars, mkfsVars>>

NextDep ==
    \/ PreNoFile
    \/ PreLoad
    \/ PreAssign
    \/ PreDone

SpecDep == InitDep /\ [][NextDep]_vars

\* ---- properties ---------------------------------------------------------
Finished(p, name) == pc[p] = "idle" /\ op[p] = name
Issued(p, c) == \E i \in 1..Len(cmds[p]) : cmds[p][i].c = c
Succeeded(p, c) == \E i \in 1..Len(cmds[p]) : cmds[p][i].c = c /\ cmds[p][i].ok
Failed(p, c) == \E i \in 1..Len(cmds[p]) : cmds[p][i].c = c /\ ~cmds[p][i].ok
UmountCmds == {"umount", "umount -f", "umount -l"}

\* C1: once a mount() or unmount() call has finished, on whatever exit path,
\* the process no longer holds the mount-table lock.
C1_LockReleasedOnEveryExit ==
    \A p \in Procs :
        (Finished(p, "mount") \/ Finished(p, "unmount")) => ~locked[p]

\* C2: when a mount(check=true) call is about to issue the mount command, its
\* device is not in the mounted-devices list and its mount point is not in
\* the mount-points list; from the check on nothing it checked has changed.
C2_CheckedMountIsAtomic ==
    \A p \in Procs :
        /\ (pc[p] = "m_mount" /\ loc[p].check) =>
              /\ part[p].device \notin list_mount_devices
              /\ loc[p].mountpoint \notin list_mount_points
        /\ (pc[p] = "m_losetup" /\ loc[p].check) =>
              /\ part[p].device \notin list_mount_devices
              /\ loc[p].mountpoint \notin list_mount_points

\* a mount(check=true) call stands right before its mount command while
\* another process is inside a call of its own on the same raw device
C2_Witness ==
    \E p, q \in Procs :
        /\ p # q
        /\ pc[p] = "m_mount" /\ loc[p].check
        /\ pc[q] = "lock" /\ op[q] = "mount" /\ loc[q].check
        /\ part[p].device = part[q].device /\ part[p].loop = 0

\* C3: at most one process holds the mount-table lock, and the check, the
\* loop binding, the mount command, the mount-point resolution and every
\* umount command of mount() / unmount() run in the process holding it.
LockedSteps == {"m_check", "m_losetup", "m_mount", "u_resolve", "u_umount",
                "f_umount_f", "f_umount_l"}
LockedCmds == {"losetup", "mount", "umount", "umount -f", "umount -l"}
C3_MutualExclusion ==
    /\ Cardinality({p \in Procs : locked[p]}) <= 1
    /\ \A p \in Procs :
        /\ pc[p] \in LockedSteps => locked[p]
        /\ \A i \in 1..Len(cmds[p]) : cmds[p][i].c \in LockedCmds => cmds[p][i].held

\* a process has bound its loop device under the lock and stands before the
\* mount command while the other one waits for the lock in unmount
C3_Witness ==
    \E p, q \in Procs :
        /\ p # q
        /\ pc[p] = "m_mount" /\ locked[p]
        /\ Succeeded(p, "losetup") /\ cmds[p][1].held
        /\ pc[q] = "lock" /\ op[q] = "unmount" /\ ~locked[q]

\* C4: after a failed graceful umount with force=true the commands follow in
\* the order lsof, one kill -9 per returned PID, umount -f, and umount -l only
\* after a failed umount -f; 2 is returned only after a successful umount -f
\* or umount -l, and "Force unmount failed" is raised when both failed.
C4_ForcedUnmountOrder ==
    \A p \in Procs :
        op[p] = "unmount" =>
          LET L == cmds[p]
              IsKillRun(i) == \A j \in 3..(i - 1) :
                                 /\ j - 2 <= Len(L[2].arg)
                                 /\ L[j].c = "kill"
                                 /\ L[j].arg = L[2].arg[j - 2]
          IN /\ \A i \in 1..Len(L) :
                  /\ L[i].c = "lsof" =>
                        i = 2 /\ L[1].c = "umount" /\ ~L[1].ok /\ loc[p].force
                  /\ L[i].c = "kill" =>
                        i >= 3 /\ L[2].c = "lsof" /\ L[2].ok /\ IsKillRun(i + 1)
                  /\ L[i].c = "umount -f" =>
                        /\ i >= 3 /\ L[2].c = "lsof" /\ L[2].ok
                        /\ i = Len(L[2].arg) + 3
                        /\ IsKillRun(i)
                  /\ L[i].c = "umount -l" =>
                        i >= 2 /\ L[i - 1].c = "umount -f" /\ ~L[i - 1].ok
             /\ result[p] = ResultForced =>
                  Succeeded(p, "umount -f") \/ Succeeded(p, "umount -l")
             /\ pc[p] = "idle" =>
                  /\ (loc[p].force /\ Failed(p, "umount")) => Issued(p, "lsof")
                  /\ Succeeded(p, "lsof") => Issued(p, "umount -f")
                  /\ Failed(p, "umount -f") => Issued(p, "umount -l")
                  /\ (Failed(p, "umount -f") /\ Failed(p, "umount -l")) <=>
                        error[p] = "Force unmount failed"

\* an unmount(force=true) finished with 2 after killing two processes, a failed
\* umount -f and a successful umount -l
C4_Witness ==
    \E p \in Procs :
        /\ Finished(p, "unmount") /\ result[p] = ResultForced /\ error[p] = None
        /\ Len(cmds[p]) >= 6
        /\ cmds[p][3].c = "kill" /\ cmds[p][4].c = "kill"
        /\ Failed(p, "umount -f") /\ Succeeded(p, "umount -l")

\* how an unmount call that returned came about
Class(p) ==
    IF ~\E i \in 1..Len(cmds[p]) : cmds[p][i].c \in UmountCmds THEN "already-unmounted"
    ELSE IF Succeeded(p, "umount") THEN "plain-success"
    ELSE "escalated-success"

\* C5 as stated: the value unmount returns when the partition was not mounted
\* differs from the values of a graceful and of a forced success.
C5_ThreeDistinctResults ==
    \A p \in Procs :
        (Finished(p, "unmount") /\ error[p] = None /\ Class(p) = "already-unmounted")
            => result[p] \notin {ResultSuccess, ResultForced}

\* C5: unmount returns one of two values: 1 after a graceful umount and when
\* the partition was not mounted, 2 after a successful forced recovery.
C5_TwoResults ==
    \A p \in Procs :
        (Finished(p, "unmount") /\ error[p] = None) =>
            /\ result[p] \in {ResultSuccess, ResultForced}
            /\ result[p] = ResultForced <=> Class(p) = "escalated-success"
            /\ result[p] = ResultSuccess <=>
                  Class(p) \in {"plain-success", "already-unmounted"}

\* an unmount that resolved no mount point, while the other process has its
\* device mounted, has returned the value of a graceful success
C5_Witness ==
    \E p, q \in Procs :
        /\ Finished(p, "unmount") /\ error[p] = None
        /\ Class(p) = "already-unmounted" /\ result[p] = ResultSuccess
        /\ Finished(q, "mount") /\ error[q] = None
        /\ part[q].device \in list_mount_devices

\* C6: the step of unmount() that resolves no mount point ends the call
\* without error and without any command; nothing of the host has changed.
C6_NotMountedIsNoOp ==
    [][\A p \in Procs :
         (pc[p] = "u_resolve" /\ pc'[p] # "u_resolve" /\ get_mountpoint(p) = None)
           => /\ pc'[p] = "idle"
              /\ error'[p] = None
              /\ cmds'[p] = << >>
              /\ mtab' = mtab /\ loops' = loops /\ part' = part]_vars

\* an unmount of a loop-backed partition whose device is attached returned
\* without having issued a command
C6_Witness ==
    \E p \in Procs :
        /\ Finished(p, "unmount") /\ error[p] = None /\ cmds[p] = << >>
        /\ part[p].loop # 0 /\ LoopIndex(part[p].device) # 0

\* steps of p that end a mount call / make up the mkfs check
MountEnds(p) ==
    /\ op'[p] = "mount" /\ pc'[p] = "idle"
    /\ calls'[p] # calls[p] \/ pc[p] # "idle"
MkfsChecks(p) == calls'[p] # calls[p] /\ op'[p] = "mkfs"
Untouched(p) ==
    /\ cmds'[p] = << >>
    /\ dirs' = dirs /\ mtab' = mtab /\ loops' = loops
    /\ part'[p].device = part[p].device

\* C7 as stated: with the device in the list of mounted devices, every
\* mount(check=true) ends with the already-mounted error, whatever the other
\* arguments and fields, and so does mkfs; neither has touched anything.
C7_MountedDeviceAlwaysRefused ==
    [][\A p \in Procs :
         /\ (MountEnds(p) /\ loc'[p].check /\ part[p].device \in list_mount_devices)
              => error'[p] = "Attempted to mount mounted device" /\ Untouched(p)
         /\ (MkfsChecks(p) /\ part[p].device \in list_mount_devices)
              => error'[p] = "Unable to format mounted device" /\ Untouched(p)]_vars

\* C7: with the device in the list of mounted devices, mkfs fails with the
\* already-mounted error, the check of mount(check=true) fails with the
\* already-mounted error, and a mount(check=true) that ends earlier (no mount
\* point, lock not obtained, mount table not opened) fails too; none of them
\* has issued a command, created the directory or changed device.
C7_MountedDeviceRefusedAtCheck ==
    [][\A p \in Procs :
         /\ (/\ pc[p] = "m_check" /\ pc'[p] # "m_check" /\ loc[p].check
             /\ part[p].device \in list_mount_devices)
              => /\ pc'[p] = "idle"
                 /\ error'[p] = "Attempted to mount mounted device"
                 /\ Untouched(p)
         /\ (MountEnds(p) /\ loc'[p].check /\ part[p].device \in list_mount_devices)
              => error'[p] # None /\ Untouched(p)
         /\ (MkfsChecks(p) /\ part[p].device \in list_mount_devices)
              => /\ pc'[p] = "idle"
                 /\ error'[p] = "Unable to format mounted device"
                 /\ Untouched(p)]_vars

\* a mount(check=true) towards a given mount point and a mkfs were both
\* refused because the device was mounted
C7_Witness ==
    \E p, q \in Procs :
        /\ Finished(p, "mount") /\ loc[p].check /\ loc[p].mountpoint = "mp2"
        /\ error[p] = "Attempted to mount mounted device"
        /\ Finished(q, "mkfs") /\ error[q] = "Unable to format mounted device"

\* C8: whenever a call on a loop-backed partition has finished and the
\* partition is not mounted, no loop device bound by its mount() calls is
\* attached, unless unmount() raised the loop-cleanup error.
C8_NoLoopDeviceLeaked ==
    \A p \in Procs :
        (/\ pc[p] = "idle" /\ part[p].loop # 0
         /\ error[p] # "Unable to cleanup loop device")
          => \A i \in 1..Len(LoopDevs) :
                loops[i].by = p => LoopDevs[i] \in list_mount_devices

\* C9: losetup -d is issued outside the lock scope and after a successful
\* umount command of the same call; the loop-cleanup error implies such a
\* umount, and an unmount ending in another error has issued no losetup -d.
C9_DetachAfterUnmount ==
    \A p \in Procs :
        /\ pc[p] = "u_losetup" => ~locked[p] /\ ~mtabOpen[p]
        /\ \A i \in 1..Len(cmds[p]) :
              cmds[p][i].c = "losetup -d" =>
                /\ ~cmds[p][i].held
                /\ \E j \in 1..(i - 1) : cmds[p][j].c \in UmountCmds /\ cmds[p][j].ok
        /\ (pc[p] = "u_losetup" \/ error[p] = "Unable to cleanup loop device") =>
              \E j \in 1..Len(cmds[p]) : cmds[p][j].c \in UmountCmds /\ cmds[p][j].ok
        /\ (/\ Finished(p, "unmount") /\ error[p] # None
            /\ error[p] # "Unable to cleanup loop device") => ~Issued(p, "losetup -d")

\* an unmount raised the loop-cleanup error after its umount -l had succeeded
C9_Witness ==
    \E p \in Procs :
        /\ Finished(p, "unmount") /\ error[p] = "Unable to cleanup loop device"
        /\ Succeeded(p, "umount -l") /\ Failed(p, "losetup -d")

\* C10: device has the value it had before the call after every mount() that
\* raised a PartitionError and after every mkfs() and unmount(); the device of
\* a partition that is not loop-backed never changes.
C10_DeviceChangesOnlyOnSuccess ==
    \A p \in Procs :
        /\ (Finished(p, "mount") /\ error[p] \in PartitionErrors) =>
              part[p].device = devAtCall[p]
        /\ (Finished(p, "mkfs") \/ Finished(p, "unmount")) =>
              part[p].device = devAtCall[p]
        /\ (part[p].loop = 0 /\ calls[p] > 0) => part[p].device = devAtCall[p]

RecoveryCmds == {"lsof", "kill", "umount -f", "umount -l"}

\* C11: lsof, kill -9, umount -f and umount -l are issued only after the plain
\* umount of the same call failed with force=true; with force=false a failed
\* umount ends the call with "Unable to unmount gracefully", nothing else
\* issued and the mount still in the table.
C11_RecoveryOnlyAfterFailedUmount ==
    [][\A p \in Procs :
         /\ \A i \in 1..Len(cmds'[p]) :
               (op'[p] = "unmount" /\ cmds'[p][i].c \in RecoveryCmds) =>
                  /\ i > 1
                  /\ cmds'[p][1].c = "umount" /\ ~cmds'[p][1].ok
                  /\ loc'[p].force
         /\ (/\ pc[p] = "u_umount" /\ pc'[p] # "u_umount"
             /\ ~loc[p].force /\ ~cmds'[p][1].ok)
              => /\ pc'[p] = "idle"
                 /\ error'[p] = "Unable to unmount gracefully"
                 /\ Len(cmds'[p]) = 1
                 /\ mtab' = mtab
                 /\ get_mountpoint(p) # None]_vars

\* an unmount(force=false) ended with the graceful-unmount error and the
\* partition is still mounted
C11_Witness ==
    \E p \in Procs :
        /\ Finished(p, "unmount") /\ ~loc[p].force
        /\ error[p] = "Unable to unmount gracefully"
        /\ cmds[p] = <<[c |-> "umount", arg |-> "mp1", ok |-> FALSE, held |-> TRUE]>>
        /\ get_mountpoint(p) = "mp1"

\* C12: when lsof fails, unmount() raises a PartitionError with the lock
\* released, and lsof is the last command of the call: no kill, umount -f,
\* umount -l or losetup -d follows.
C12_EnumerationFailureAborts ==
    \A p \in Procs :
        (op[p] = "unmount" /\ Failed(p, "lsof")) =>
            /\ pc[p] = "idle"
            /\ error[p] \in {"Failure executing lsof", "Could not run lsof"}
            /\ error[p] \in PartitionErrors
            /\ Len(cmds[p]) = 2 /\ cmds[p][2].c = "lsof"
            /\ ~locked[p] /\ ~mtabOpen[p]

\* an unmount(force=true) of a loop-backed partition ended in a failed lsof
C12_Witness ==
    \E p \in Procs :
        /\ Finished(p, "unmount") /\ part[p].loop # 0
        /\ Failed(p, "lsof") /\ cmds[p][2].arg = "error"
        /\ error[p] = "Failure executing lsof"

\* C13: lsof reporting "no matches" (non-zero exit status, no output) is not
\* a failure: no PartitionError is raised for it, nothing is killed and the
\* recovery goes on to umount -f.
C13_NoMatchesIsNotAFailure ==
    \A p \in Procs :
        (/\ Finished(p, "unmount") /\ Len(cmds[p]) >= 2
         /\ cmds[p][2].c = "lsof" /\ ~cmds[p][2].ok
         /\ cmds[p][2].arg = "no matches")
          => /\ error[p] \notin {"Failure executing lsof", "Could not run lsof"}
             /\ ~Issued(p, "kill")
             /\ Issued(p, "umount -f")

\* C14: a failed external command (kill -9 apart) never leaves a finished
\* operation without an error, and the error the caller gets is a
\* PartitionError: dd of the constructor, mkfs, losetup, mount, umount, lsof
\* and losetup -d alike.
C14_CommandFailuresArePartitionErrors ==
    \A p \in Procs :
        (/\ pc[p] \in {"idle", "failed"}
         /\ Len(cmds[p]) > 0
         /\ ~cmds[p][Len(cmds[p])].ok
         /\ cmds[p][Len(cmds[p])].c # "kill")
          => error[p] \in PartitionErrors

\* the pc values inside the body of "with MtabLock():"
ScopePcs == {"m_check", "m_losetup", "m_mount", "u_resolve", "u_umount",
             "f_lsof", "f_kill", "f_umount_f", "f_umount_l"}

\* C15: an acquisition made while no other process is inside a lock scope
\* does not time out; an acquisition always comes to an end; and a call that
\* ends with the lock-timeout error has issued no command and has left the
\* device, the mount table and the loop devices as they were.
C15_SequentialAcquireAndTimeout ==
    [][\A p \in Procs :
         /\ pc[p] = "lock" => ENABLED MtabLockEnter(p)
         /\ (pc[p] = "lock" /\ pc'[p] # "lock") =>
               /\ (\A q \in Procs \ {p} : pc[q] \notin ScopePcs)
                     => error'[p] # "Unable to obtain lock"
               /\ error'[p] = "Unable to obtain lock"
                     => /\ pc'[p] = "idle"
                        /\ cmds'[p] = << >>
                        /\ part'[p].device = devAtCall[p]
                        /\ osVars' = osVars]_vars

\* the step on which an unmount() of p returns without error
UnmountReturns(p) ==
    /\ op'[p] = "unmount" /\ pc[p] # "idle" /\ pc'[p] = "idle"
    /\ error'[p] = None

\* C18: while p is the only process that ever mounted anything (every mount
\* in the table is one p's mount() created), an unmount() of p that returns
\* without error leaves no mount of p's device in the mount table.
C18_UnmountLeavesDeviceUnmounted ==
    [][\A p \in Procs :
         (UnmountReturns(p) /\ \A q \in Procs \ {p} : pc[q] = "new")
            => \A e \in Range(mtab') : e[1] # part'[p].device]_vars

\* ---- properties of the mkfs command line ---------------------------------
\* the words the shell passes to mkfs: the command line split at blanks
RECURSIVE Words(_)
Words(s) ==
    LET t == lstrip(s)
    IN IF Len(t) = 0 THEN << >>
       ELSE LET n == IF Contains(" ", t)
                       THEN CHOOSE i \in 1..Len(t) :
                                /\ SubSeq(t, i, i) = " "
                                /\ \A j \in 1..(i - 1) : SubSeq(t, j, j) # " "
                       ELSE Len(t) + 1
            IN <<SubSeq(t, 1, n - 1)>> \o Words(SubSeq(t, n, Len(t)))

\* positions of the type flags in a sequence of words
TypeFlags(w) == {i \in 1..Len(w) : w[i] = "-t" \/ startswith(w[i], "--type")}
\* positions of the force flags
ForceFlags(w) == {i \in 1..Len(w) : w[i] \in {"-f", "-F"}}

Built == kpc = "run" \/ (kpc = "idle" /\ mk.mkfs_cmd # None)

\* C16: the built format command carries exactly one type flag; a caller's
\* type flag is kept verbatim; when neither args nor mkfs_flags specifies a
\* type flag, "-t <resolved fstype>" is injected in front.
C16_ExactlyOneTypeFlag ==
    Built =>
        LET w == Words(mk.mkfs_cmd)
        IN /\ Cardinality(TypeFlags(w)) = 1
           /\ TypeFlags(Words(mk.args)) # {} => Contains(strip(mk.args), mk.mkfs_cmd)
           /\ (TypeFlags(Words(mk.args)) = {} /\ TypeFlags(Words(obj.mkfs_flags)) = {})
                 => (w[2] = "-t" /\ w[3] = mk.fstype)

ForceExpected(o, fstype) ==
    \/ fstype \in {"xfs", "btrfs"}
    \/ o.loop # 0 /\ (startswith(fstype, "ext") \/ fstype = "reiserfs")

\* C17: the format command holds one force flag more than the caller's args
\* and mkfs_flags exactly when the resolved type is xfs or btrfs, or the
\* partition is loop-backed and the type starts with "ext" or is reiserfs,
\* and none more otherwise; the resolved type is the explicit argument, else
\* the recorded fstype, else "ext2".
C17_ForceFlagExactlyWhenNeeded ==
    kpc = "run" =>
        /\ mk.fstype = (IF mk.in_fstype # None THEN mk.in_fstype
                        ELSE IF obj.fstype # None THEN obj.fstype ELSE "ext2")
        /\ Cardinality(ForceFlags(Words(mk.mkfs_cmd)))
             = Cardinality(ForceFlags(Words(mk.args)))
               + Cardinality(ForceFlags(Words(obj.mkfs_flags)))
               + (IF ForceExpected(obj, mk.fstype) THEN 1 ELSE 0)

\* a loop-backed partition formatted as reiserfs by its recorded type: the
\* command carries -f
C17_Witness ==
    /\ kpc = "run" /\ obj.loop # 0
    /\ mk.in_fstype = None /\ obj.fstype = "reiserfs"
    /\ mk.mkfs_cmd = "mkfs -t reiserfs -b 4096 -f devA"

\* C19: after a successful mkfs the recorded fstype is the type the format
\* command named with its type flag, and a mount() that omits fstype passes
\* that type; a failed mkfs leaves the recorded fstype unchanged.
C19_RecordedTypeIsFormattedType ==
    [][(kpc = "run" /\ kpc' = "idle") =>
         IF mk'.status = "ok"
           THEN LET w == Words(mk.mkfs_cmd)
                IN \A i \in TypeFlags(w) :
                      /\ w[i + 1] = obj'.fstype
                      /\ MountArgs(obj', None, "") = "-t " \o w[i + 1]
           ELSE obj'.fstype = obj.fstype]_vars

\* ---- properties of SuiteDependency.pre ------------------------------------
\* the Dependency objects of the dependency file, in file order
FileDeps == [i \in 1..Len(suite.file.dicts) |-> from_dictionary(suite.file.dicts[i])]

\* C20: every runnable the loop has processed has as dependencies the
\* dependencies of the file followed by its own original dependencies
\* (heap[t] is the list runnable t started with), whatever was processed
\* after it.
C20_EachTestGetsFilePlusOwn ==
    dpc \in {"loop", "done"} /\ suite.dependency # None =>
        \A t \in 1..Len(tests) :
            t < runnable => heap[tests[t]] = FileDeps \o heap[t]
====
